---- MODULE Spec2Model ----
(***************************************************************************)
(* Model of the mapping-extraction engine of pjm (src/mappings.py) and of  *)
(* the way its caller (src/hits.py) drives one engine instance through     *)
(* several fetches.                                                        *)
(*                                                                         *)
(* Text is modelled as sequences of one-character strings, so that the     *)
(* string operations of the code (strip, split, startswith, `in`, the      *)
(* regular expressions, int) are computed and not assumed.  A parsed HTML  *)
(* document is a sequence of sibling nodes (h4 headings and tables); a     *)
(* table has rows of cells and a cell may hold one nested table.           *)
(***************************************************************************)
EXTENDS Integers, Sequences, FiniteSets, TLC

-----------------------------------------------------------------------------
(* Python values *)

\* None, where the value is otherwise an atomic token (a marker class)
None == "None"
\* None, where the value is otherwise a text (a sequence of characters)
NoneT == <<"None">>

-----------------------------------------------------------------------------
(* Characters and the string operations the code uses *)

Lower == {"a","b","c","d","e","f","g","h","i","j","k","l","m",
          "n","o","p","q","r","s","t","u","v","w","x","y","z"}
Upper == {"A","B","C","D","E","F","G","H","I","J","K","L","M",
          "N","O","P","Q","R","S","T","U","V","W","X","Y","Z"}
Letters == Lower \cup Upper
Digits == {"0","1","2","3","4","5","6","7","8","9"}
Whitespace == {" ", "\t", "\n"}

DigitVal(c) ==
    CASE c = "0" -> 0 [] c = "1" -> 1 [] c = "2" -> 2 [] c = "3" -> 3
      [] c = "4" -> 4 [] c = "5" -> 5 [] c = "6" -> 6 [] c = "7" -> 7
      [] c = "8" -> 8 [] c = "9" -> 9

RECURSIVE LStrip(_)
LStrip(s) ==
    IF s = <<>> THEN s
    ELSE IF Head(s) \in Whitespace THEN LStrip(Tail(s)) ELSE s

RECURSIVE RStrip(_)
RStrip(s) ==
    IF s = <<>> THEN s
    ELSE IF s[Len(s)] \in Whitespace THEN RStrip(SubSeq(s, 1, Len(s) - 1)) ELSE s

\* str.strip()
Strip(s) == RStrip(LStrip(s))

\* str.startswith(p)
StartsWith(s, p) == Len(s) >= Len(p) /\ SubSeq(s, 1, Len(p)) = p

\* sub in s
Contains(s, sub) ==
    \E i \in 1..(Len(s) - Len(sub) + 1) : SubSeq(s, i, i + Len(sub) - 1) = sub

\* c in s, for one character
HasChar(s, c) == \E i \in 1..Len(s) : s[i] = c

\* s.split(c)[0]: the text before the first c (all of s when c is absent)
RECURSIVE SplitFirst(_, _)
SplitFirst(s, c) ==
    IF s = <<>> THEN <<>>
    ELSE IF Head(s) = c THEN <<>>
    ELSE <<Head(s)>> \o SplitFirst(Tail(s), c)

\* s.split(c): every piece, empty ones included
RECURSIVE SplitOn(_, _)
SplitOn(s, c) ==
    IF ~HasChar(s, c) THEN <<s>>
    ELSE <<SplitFirst(s, c)>>
         \o SplitOn(SubSeq(s, Len(SplitFirst(s, c)) + 2, Len(s)), c)

\* s.split(): the whitespace-separated tokens, no empty ones
RECURSIVE SplitWs(_)
SplitWs(s) ==
    LET t == LStrip(s)
        RECURSIVE Word(_)
        Word(u) == IF u = <<>> \/ Head(u) \in Whitespace THEN <<>>
                   ELSE <<Head(u)>> \o Word(Tail(u))
    IN IF t = <<>> THEN <<>>
       ELSE <<Word(t)>> \o SplitWs(SubSeq(t, Len(Word(t)) + 1, Len(t)))

\* `if '(' in name: name = name.split('(')[0]`
StripParen(s) == IF HasChar(s, "(") THEN SplitFirst(s, "(") ELSE s

\* `$` of a Python regular expression also matches before one final newline
DropFinalNewline(s) ==
    IF s # <<>> /\ s[Len(s)] = "\n" THEN SubSeq(s, 1, Len(s) - 1) ELSE s

\* re.match(r'^[a-zA-Z]{1,4}$', s)
MatchLetters14(s) ==
    LET t == DropFinalNewline(s)
    IN Len(t) \in 1..4 /\ \A i \in 1..Len(t) : t[i] \in Letters

\* len(s) <= 4 and re.match(r'^[a-zA-Z]{1,4}$', s)
LooksObfuscated(s) == Len(s) <= 4 /\ MatchLetters14(s)

P_field == <<"f","i","e","l","d","_">>
P_method == <<"m","e","t","h","o","d","_">>
P_func == <<"f","u","n","c","_">>

\* re.match(r'^(field_|method_|func_)[0-9]+_[a-zA-Z]$', s)
MatchSeargeMember(s) ==
    LET t == DropFinalNewline(s)
    IN \E p \in {P_field, P_method, P_func} :
          /\ StartsWith(t, p)
          /\ LET r == SubSeq(t, Len(p) + 1, Len(t))
             IN /\ Len(r) >= 3
                /\ r[Len(r)] \in Letters
                /\ r[Len(r) - 1] = "_"
                /\ \A i \in 1..(Len(r) - 2) : r[i] \in Digits

-----------------------------------------------------------------------------
(* int(): the value of a decimal literal, or ValueError *)

RECURSIVE DigitsValue(_)
DigitsValue(s) ==
    IF s = <<>> THEN 0
    ELSE 10 * DigitsValue(SubSeq(s, 1, Len(s) - 1)) + DigitVal(s[Len(s)])

IsDigits(s) == s # <<>> /\ \A i \in 1..Len(s) : s[i] \in Digits

\* int(s) raises ValueError
IntFails(s) ==
    LET t == Strip(s)
    IN ~ ( \/ IsDigits(t)
           \/ (t # <<>> /\ Head(t) \in {"-", "+"} /\ IsDigits(Tail(t))) )

\* int(s), when it does not raise
IntValue(s) ==
    LET t == Strip(s)
    IN IF Head(t) = "-" THEN 0 - DigitsValue(Tail(t))
       ELSE IF Head(t) = "+" THEN DigitsValue(Tail(t))
       ELSE DigitsValue(t)

-----------------------------------------------------------------------------
(* The naming schemes: class MappingsType *)

MOJANG == "MOJANG"
YARN == "YARN"
INTERMEDIARY == "INTERMEDIARY"
SEARGE == "SEARGE"
MappingsType == {MOJANG, YARN, INTERMEDIARY, SEARGE}

\* Mappings.POTENTIAL_NAME_CELL_CLASS
POTENTIAL_NAME_CELL_CLASS == "F"

\* the literals the detection looks for in a class name
NetMinecraft == <<"n","e","t",".","m","i","n","e","c","r","a","f","t",".">>
ComMojang == <<"c","o","m",".","m","o","j","a","n","g",".">>
S_Client == <<"C","l","i","e","n","t">>
S_Impl == <<"I","m","p","l">>
S_class_ == <<"c","l","a","s","s","_">>

-----------------------------------------------------------------------------
(* Python dicts, as functions on their set of keys *)

EmptyDict == [k \in {} |-> None]

\* d[k] = v
DictSet(d, k, v) == [x \in (DOMAIN d) \cup {k} |-> IF x = k THEN v ELSE d[x]]

\* d.get(k)
DictGet(d, k) == IF k \in DOMAIN d THEN d[k] ELSE None

-----------------------------------------------------------------------------
(* The parsed document.                                                    *)
(*   node  : [tag |-> "h4", text] or [tag |-> "table", cls, tbody, rows]   *)
(*   row   : a sequence of cells (the td children of a tr)                 *)
(*   cell  : [cls, text, inner]; cls is the class attribute or None, inner *)
(*           the rows of a table nested in the cell (<<>> when none)       *)
(* A table is named by <<n>> (the n-th node) or by <<n, r, c>> (the table  *)
(* nested in cell c of row r of node n).                                   *)

IsTable(node) == node.tag = "table"

\* text_content() of a cell: its own text, then the text of what it contains
RECURSIVE RowsText(_)
RowsText(rows) ==
    LET RECURSIVE RowText(_)
        RowText(row) == IF row = <<>> THEN <<>>
                        ELSE Head(row).text \o RowText(Tail(row))
    IN IF rows = <<>> THEN <<>> ELSE RowText(Head(rows)) \o RowsText(Tail(rows))

TextContent(cell) == cell.text \o RowsText(cell.inner)

\* the class attributes of the td siblings before cell i of a row
PrevClasses(row, i) == {row[j].cls : j \in 1..(i - 1)} \ {None}

\* the td elements of one row, in document order, each with the table it
\* belongs to: a cell, then the cells nested in it
RECURSIVE SimpleRowEntries(_, _, _)
SimpleRowEntries(row, i, tid) ==
    IF i > Len(row) THEN <<>>
    ELSE <<[cls |-> row[i].cls, text |-> TextContent(row[i]),
            prev |-> PrevClasses(row, i), tbl |-> tid]>>
         \o SimpleRowEntries(row, i + 1, tid)

RECURSIVE InnerEntries(_, _, _)
InnerEntries(rows, k, tid) ==
    IF k > Len(rows) THEN <<>>
    ELSE SimpleRowEntries(rows[k], 1, tid) \o InnerEntries(rows, k + 1, tid)

RECURSIVE RowEntries(_, _, _, _)
RowEntries(row, i, n, r) ==
    IF i > Len(row) THEN <<>>
    ELSE <<[cls |-> row[i].cls, text |-> TextContent(row[i]),
            prev |-> PrevClasses(row, i), tbl |-> <<n>>]>>
         \o InnerEntries(row[i].inner, 1, <<n, r, i>>)
         \o RowEntries(row, i + 1, n, r)

RECURSIVE TableEntries(_, _, _)
TableEntries(rows, r, n) ==
    IF r > Len(rows) THEN <<>>
    ELSE RowEntries(rows[r], 1, n, r) \o TableEntries(rows, r + 1, n)

\* //td, in document order
RECURSIVE DocEntries(_, _)
DocEntries(doc, n) ==
    IF n > Len(doc) THEN <<>>
    ELSE (IF IsTable(doc[n]) THEN TableEntries(doc[n].rows, 1, n) ELSE <<>>)
         \o DocEntries(doc, n + 1)

\* is the table of entry e the table tid or a table nested in it
InTable(e, tid) ==
    IF Len(tid) = 1 THEN e.tbl[1] = tid[1] ELSE e.tbl = tid

\* tid.xpath(".//td"), in document order, tds being //td of the document
EntriesIn(tds, tid) ==
    SelectSeq(tds, LAMBDA e : InTable(e, tid))

\* td[@class and following-sibling::td[@class='F']] selects a td that the
\* entry e follows, when e is a name cell
IsNameAfterAnyMarker(e) == e.cls = POTENTIAL_NAME_CELL_CLASS /\ e.prev # {}

\* td[@class='m']/following-sibling::td[@class='F'] selects e
IsNameAfter(e, m) == e.cls = POTENTIAL_NAME_CELL_CLASS /\ m \in e.prev

\* //table, in document order: a table, then the tables nested in its cells
RECURSIVE NestedIds(_, _, _, _)
NestedIds(rows, r, i, n) ==
    IF r > Len(rows) THEN <<>>
    ELSE IF i > Len(rows[r]) THEN NestedIds(rows, r + 1, 1, n)
    ELSE (IF rows[r][i].inner # <<>> THEN << <<n, r, i>> >> ELSE <<>>)
         \o NestedIds(rows, r, i + 1, n)

RECURSIVE TableIds(_, _)
TableIds(doc, n) ==
    IF n > Len(doc) THEN <<>>
    ELSE (IF IsTable(doc[n]) THEN << <<n>> >> \o NestedIds(doc[n].rows, 1, 1, n)
          ELSE <<>>)
         \o TableIds(doc, n + 1)

\* tid.xpath('.//tr'), each row as its td children, in document order
RECURSIVE FlatRows(_)
FlatRows(rows) ==
    LET RECURSIVE CellsInner(_)
        CellsInner(row) == IF row = <<>> THEN <<>>
                           ELSE Head(row).inner \o CellsInner(Tail(row))
    IN IF rows = <<>> THEN <<>>
       ELSE <<Head(rows)>> \o CellsInner(Head(rows)) \o FlatRows(Tail(rows))

RowsOf(doc, tid) ==
    IF Len(tid) = 1 THEN FlatRows(doc[tid[1]].rows)
    ELSE doc[tid[1]].rows[tid[2]][tid[3]].inner

\* tree.xpath("//table[.//td[@class and following-sibling::td[@class='F']]]")
DefinitionTables(doc) ==
    LET tds == DocEntries(doc, 1)
    IN SelectSeq(TableIds(doc, 1),
                 LAMBDA tid : SelectSeq(EntriesIn(tds, tid), IsNameAfterAnyMarker) # <<>>)

\* html.fromstring(response.content): the nodes of the document, with the
\* node lists //td and //table[...] that fetch and _detect_selectors query
Parse(doc) ==
    [nodes |-> doc,
     tds |-> DocEntries(doc, 1),
     definition_tables |-> DefinitionTables(doc),
     definition_rows |-> IF DefinitionTables(doc) = <<>> THEN <<>>
                         ELSE RowsOf(doc, DefinitionTables(doc)[1])]

\* tree.xpath("//h4[text()='...']"): the positions of the headings
Headings(doc, text) ==
    SelectSeq([n \in 1..Len(doc) |-> n],
              LAMBDA n : doc[n].tag = "h4" /\ doc[n].text = text)

\* a Python value that is falsy as a class attribute: None or ''
Falsy(c) == c = NoneT \/ c = <<>>

-----------------------------------------------------------------------------
(* Mappings._detect_selectors *)

\* self.detected_selectors as __init__ leaves it
InitialSelectors ==
    [class_name_markers |-> EmptyDict,
     obfuscated_class_marker |-> None,
     searge_class_marker |-> None,
     field_method_table_class |-> NoneT]

\* the branch of the detection loop a stripped, non-empty class name takes
OBFUSCATED == "OBFUSCATED"
PLAIN == "PLAIN"
UNCLASSIFIED == "UNCLASSIFIED"

Classify(text) ==
    IF LooksObfuscated(text) THEN OBFUSCATED
    ELSE IF StartsWith(text, NetMinecraft) \/ StartsWith(text, ComMojang)
    THEN IF Contains(text, S_Client) \/ Contains(text, S_Impl) THEN YARN
         ELSE IF Contains(text, S_class_) THEN INTERMEDIARY
         ELSE PLAIN
    ELSE UNCLASSIFIED

\* does the loop look at the name of this row at all
RowIsCandidate(row) ==
    /\ Len(row) = 2
    /\ row[1].cls # None
    /\ row[2].cls = POTENTIAL_NAME_CELL_CLASS
    /\ Strip(TextContent(row[2])) # <<>>

\* variant of RecordFirst: every row of the scheme records its marker
RecordFirst_LastWins(st, scheme, marker) ==
    [sel |-> [st.sel EXCEPT !.class_name_markers = DictSet(@, scheme, marker)],
     found |-> st.found \cup {scheme}]

\* first-wins recording of a scheme's marker (YARN and INTERMEDIARY)
RecordFirst(st, scheme, marker) ==
    IF scheme \notin st.found
    THEN [sel |-> [st.sel EXCEPT !.class_name_markers =
                                    DictSet(@, scheme, marker)],
          found |-> st.found \cup {scheme}]
    ELSE st

\* variant of DetectRow: every plain dotted row after the first records the
\* SEARGE marker, the slot being set or not
DetectRow_Overwrite(st, row) ==
    IF ~RowIsCandidate(row) THEN st
    ELSE LET marker_class == row[1].cls
             kind == Classify(Strip(TextContent(row[2])))
         IN CASE kind = OBFUSCATED ->
                   IF SEARGE \notin st.found
                   THEN [sel |-> [st.sel EXCEPT !.obfuscated_class_marker = marker_class],
                         found |-> st.found \cup {SEARGE}]
                   ELSE st
              [] kind = YARN -> RecordFirst(st, YARN, marker_class)
              [] kind = INTERMEDIARY -> RecordFirst(st, INTERMEDIARY, marker_class)
              [] kind = PLAIN ->
                   IF MOJANG \notin st.found
                   THEN RecordFirst(st, MOJANG, marker_class)
                   ELSE [sel |-> [st.sel EXCEPT
                                    !.searge_class_marker = marker_class,
                                    !.class_name_markers = DictSet(@, SEARGE, marker_class)],
                         found |-> st.found]
              [] OTHER -> st

\* one iteration of `for row in rows`; st = [sel, found], found being
\* found_types_for_class_names
DetectRow(st, row) ==
    IF ~RowIsCandidate(row) THEN st
    ELSE LET marker_class == row[1].cls
             kind == Classify(Strip(TextContent(row[2])))
         IN CASE kind = OBFUSCATED ->
                   IF SEARGE \notin st.found
                   THEN [sel |-> [st.sel EXCEPT !.obfuscated_class_marker = marker_class],
                         found |-> st.found \cup {SEARGE}]
                   ELSE st
              [] kind = YARN -> RecordFirst(st, YARN, marker_class)
              [] kind = INTERMEDIARY -> RecordFirst(st, INTERMEDIARY, marker_class)
              [] kind = PLAIN ->
                   IF MOJANG \notin st.found
                   THEN RecordFirst(st, MOJANG, marker_class)
                   ELSE IF st.sel.searge_class_marker = None
                   THEN [sel |-> [st.sel EXCEPT
                                    !.searge_class_marker = marker_class,
                                    !.class_name_markers = DictSet(@, SEARGE, marker_class)],
                         found |-> st.found]
                   ELSE st
              [] OTHER -> st

RECURSIVE DetectRows(_, _)
DetectRows(st, rows) ==
    IF rows = <<>> THEN st
    ELSE DetectRows(DetectRow(st, Head(rows)), Tail(rows))

\* //h4[text()=heading], then ./following-sibling::table[1] of the first one:
\* the position of that table, or 0
NextTable(doc, heading) ==
    IF Headings(doc, heading) = <<>> THEN 0
    ELSE LET h == Headings(doc, heading)[1]
             after == {n \in (h + 1)..Len(doc) : IsTable(doc[n])}
         IN IF after = {} THEN 0
            ELSE CHOOSE n \in after : \A m \in after : n <= m

\* the field/method table class step of the detection
DetectTableClass(sel, doc) ==
    LET f == NextTable(doc, "Field summary")
        m == NextTable(doc, "Method summary")
        viaField == f # 0 /\ ~Falsy(doc[f].cls)
        viaMethod == m # 0 /\ ~Falsy(doc[m].cls)
    IN IF viaField THEN [sel EXCEPT !.field_method_table_class = doc[f].cls]
       ELSE IF viaMethod THEN [sel EXCEPT !.field_method_table_class = doc[m].cls]
       ELSE sel

\* _detect_selectors(tree): the selectors it leaves in self.detected_selectors
DetectSelectors(sel, tree) ==
    IF tree.definition_tables = <<>> THEN sel
    ELSE DetectTableClass(
            DetectRows([sel |-> sel, found |-> {}], tree.definition_rows).sel,
            tree.nodes)

-----------------------------------------------------------------------------
(* Mappings._process_member_table *)

\* the name cells of the scan scope (the second cell of a member row), in
\* document order
ScopeEntries(cell) == InnerEntries(cell.inner, 1, <<0>>)

\* the flat/dual row scan: the last name of each shape in the row wins
RECURSIVE ScanSearge(_, _)
ScanSearge(names, acc) ==
    IF names = <<>> THEN acc
    ELSE LET name_text == StripParen(Strip(Head(names).text))
         IN ScanSearge(Tail(names),
               IF MatchSeargeMember(name_text)
               THEN [acc EXCEPT !.searge_name = name_text]
               ELSE IF LooksObfuscated(name_text)
               THEN [acc EXCEPT !.obfuscated_name = name_text]
               ELSE acc)

\* variant of ProcessMemberRow: the pair is recorded as soon as the name of
\* the requested scheme is found
ProcessMemberRow_OneName(mapping_dict, row, scheme, requested_marker, obf_marker) ==
    IF Len(row) < 2 THEN mapping_dict
    ELSE LET scope == ScopeEntries(row[2])
         IN IF scheme = SEARGE
            THEN LET got == ScanSearge(SelectSeq(scope, IsNameAfterAnyMarker),
                                       [searge_name |-> NoneT, obfuscated_name |-> NoneT])
                 IN IF ~Falsy(got.searge_name)
                    THEN DictSet(mapping_dict, got.searge_name, got.obfuscated_name)
                    ELSE mapping_dict
            ELSE LET mapped == SelectSeq(scope, LAMBDA e : IsNameAfter(e, requested_marker))
                     obfs == SelectSeq(scope, LAMBDA e : IsNameAfter(e, obf_marker))
                 IN IF mapped # <<>>
                    THEN DictSet(mapping_dict,
                                 StripParen(Strip(mapped[1].text)),
                                 IF obfs # <<>> THEN StripParen(Strip(obfs[1].text))
                                 ELSE NoneT)
                    ELSE mapping_dict

\* the body of `for row in rows`: the mapping after the row
ProcessMemberRow(mapping_dict, row, scheme, requested_marker, obf_marker) ==
    IF Len(row) < 2 THEN mapping_dict
    ELSE LET scope == ScopeEntries(row[2])
         IN IF scheme = SEARGE
            THEN LET got == ScanSearge(SelectSeq(scope, IsNameAfterAnyMarker),
                                       [searge_name |-> NoneT, obfuscated_name |-> NoneT])
                 IN IF ~Falsy(got.searge_name) /\ ~Falsy(got.obfuscated_name)
                    THEN DictSet(mapping_dict, got.searge_name, got.obfuscated_name)
                    ELSE mapping_dict
            ELSE LET mapped == SelectSeq(scope, LAMBDA e : IsNameAfter(e, requested_marker))
                     obfs == SelectSeq(scope, LAMBDA e : IsNameAfter(e, obf_marker))
                 IN IF mapped # <<>> /\ obfs # <<>>
                    THEN DictSet(mapping_dict,
                                 StripParen(Strip(mapped[1].text)),
                                 StripParen(Strip(obfs[1].text)))
                    ELSE mapping_dict

RECURSIVE ProcessMemberRows(_, _, _, _, _)
ProcessMemberRows(mapping_dict, rows, scheme, requested_marker, obf_marker) ==
    IF rows = <<>> THEN mapping_dict
    ELSE ProcessMemberRows(
            ProcessMemberRow(mapping_dict, Head(rows), scheme, requested_marker, obf_marker),
            Tail(rows), scheme, requested_marker, obf_marker)

\* the marker of the requested scheme for members
MemberMarker(sel, scheme) ==
    IF scheme = SEARGE
    THEN IF sel.searge_class_marker # None THEN sel.searge_class_marker
         ELSE sel.obfuscated_class_marker
    ELSE DictGet(sel.class_name_markers, scheme)

\* _process_member_table(table_element, mapping_dict): the mapping it leaves
ProcessMemberTable(sel, scheme, table, mapping_dict) ==
    IF sel.obfuscated_class_marker = None \/ MemberMarker(sel, scheme) = None
    THEN mapping_dict
    ELSE ProcessMemberRows(mapping_dict,
                           IF table.tbody THEN table.rows ELSE <<>>,
                           scheme, MemberMarker(sel, scheme),
                           sel.obfuscated_class_marker)

-----------------------------------------------------------------------------
(* Mappings.fetch *)

\* how a fetch ends: by returning, or with the exception it raises
OK == "ok"
E_http == "HTTPError"
E_obf_marker == "ValueError: obfuscated class name marker not detected"
E_req_marker == "ValueError: marker of the requested type not detected"
E_table == "ValueError: class name definition table not re-found"
E_obf_name == "ValueError: obfuscated class name not found"
E_map_name == "ValueError: mapping class name not found"
E_xpath == "XPathEvalError"

\* variant of ClassMarker: the fallback order of SEARGE reversed
ClassMarker_MojangFirst(sel, scheme) ==
    IF scheme = SEARGE
    THEN IF DictGet(sel.class_name_markers, MOJANG) # None
         THEN DictGet(sel.class_name_markers, MOJANG)
         ELSE sel.searge_class_marker
    ELSE DictGet(sel.class_name_markers, scheme)

\* the marker of the requested scheme for the class name
ClassMarker(sel, scheme) ==
    IF scheme = SEARGE
    THEN IF sel.searge_class_marker # None THEN sel.searge_class_marker
         ELSE DictGet(sel.class_name_markers, MOJANG)
    ELSE DictGet(sel.class_name_markers, scheme)

\* h4.xpath("./following-sibling::table[<every token in @class>][1]") of the
\* first heading: the position of that table, or 0
MemberTable(doc, heading, tokens) ==
    IF Headings(doc, heading) = <<>> THEN 0
    ELSE LET h == Headings(doc, heading)[1]
             HasTokens(n) ==
                 \A k \in 1..Len(tokens) :
                     \E j \in 1..Len(SplitWs(doc[n].cls)) :
                         SplitWs(doc[n].cls)[j] = tokens[k]
             after == {n \in (h + 1)..Len(doc) :
                          IsTable(doc[n]) /\ doc[n].cls # NoneT /\ HasTokens(n)}
         IN IF after = {} THEN 0
            ELSE CHOOSE n \in after : \A m \in after : n <= m

\* variant of FetchMembers: an undetected table class raises instead of
\* skipping the members
FetchMembers_Strict(self, doc) ==
    LET sel == self.detected_selectors
        tokens == SplitWs(sel.field_method_table_class)
        ft == MemberTable(doc, "Field summary", tokens)
        mt == MemberTable(doc, "Method summary", tokens)
    IN IF Falsy(sel.field_method_table_class) \/ tokens = <<>>
       THEN [self EXCEPT !.outcome = E_xpath]
       ELSE [self EXCEPT
               !.outcome = OK,
               !.field_mappings =
                   IF ft # 0
                   THEN ProcessMemberTable(sel, self.mapping_type_requested, doc[ft], @)
                   ELSE @,
               !.method_mappings =
                   IF mt # 0
                   THEN ProcessMemberTable(sel, self.mapping_type_requested, doc[mt], @)
                   ELSE @]

\* self after lines 187-212, the selectors being detected and the class names
\* extracted
FetchMembers(self, doc) ==
    LET sel == self.detected_selectors
        tokens == SplitWs(sel.field_method_table_class)
        ft == MemberTable(doc, "Field summary", tokens)
        mt == MemberTable(doc, "Method summary", tokens)
    IN IF Falsy(sel.field_method_table_class)
       THEN [self EXCEPT !.outcome = OK]
       ELSE IF tokens = <<>> /\ ( \/ Headings(doc, "Field summary") # <<>>
                                  \/ Headings(doc, "Method summary") # <<>> )
       THEN [self EXCEPT !.outcome = E_xpath]
       ELSE [self EXCEPT
               !.outcome = OK,
               !.field_mappings =
                   IF ft # 0
                   THEN ProcessMemberTable(sel, self.mapping_type_requested, doc[ft], @)
                   ELSE @,
               !.method_mappings =
                   IF mt # 0
                   THEN ProcessMemberTable(sel, self.mapping_type_requested, doc[mt], @)
                   ELSE @]

\* self after lines 150-214 on the parsed document, with the way the call ends
FetchTree(self, tree) ==
    LET sel == DetectSelectors(self.detected_selectors, tree)
        s1 == [self EXCEPT !.detected_selectors = sel]
        obf_marker == sel.obfuscated_class_marker
        req_marker == ClassMarker(sel, self.mapping_type_requested)
        tds == SelectSeq(tree.tds, LAMBDA e : e.cls = obf_marker)
        inTable == EntriesIn(tree.tds, tds[1].tbl)
        obfs == SelectSeq(inTable, LAMBDA e : IsNameAfter(e, obf_marker))
        maps == SelectSeq(inTable, LAMBDA e : IsNameAfter(e, req_marker))
    IN IF obf_marker = None THEN [s1 EXCEPT !.outcome = E_obf_marker]
       ELSE IF req_marker = None THEN [s1 EXCEPT !.outcome = E_req_marker]
       ELSE IF tds = <<>> THEN [s1 EXCEPT !.outcome = E_table]
       ELSE IF obfs = <<>> THEN [s1 EXCEPT !.outcome = E_obf_name]
       ELSE IF maps = <<>>
       THEN [s1 EXCEPT !.outcome = E_map_name,
                       !.obfuscated_class_name = Strip(obfs[1].text)]
       ELSE FetchMembers([s1 EXCEPT !.obfuscated_class_name = Strip(obfs[1].text),
                                    !.mapping_class_name = Strip(maps[1].text)],
                         tree.nodes)

\* Mappings.get(): the dict fetch returns
Get(self) ==
    [class_name |-> self.mapping_class_name,
     obfuscated_class_name |-> self.obfuscated_class_name,
     fields |-> self.field_mappings,
     methods |-> self.method_mappings]

-----------------------------------------------------------------------------
(* The pages the site serves in the model.  Marker tokens differ between   *)
(* pages, as on the site.                                                  *)

TD(cls, text) == [cls |-> cls, text |-> text, inner |-> <<>>]
TDN(cls, text, inner) == [cls |-> cls, text |-> text, inner |-> inner]
TABLE(cls, tbody, rows) == [tag |-> "table", cls |-> cls, tbody |-> tbody, rows |-> rows]
H4(text) == [tag |-> "h4", text |-> text]
\* a two-cell row: a marker cell and a cell of class F holding the name
NameRow(marker, text) == <<TD(marker, <<>>), TD(POTENTIAL_NAME_CELL_CLASS, text)>>

T_aq == <<"a","q">>
T_b == <<"b">>
T_bd == <<"b","d">>
T_ce == <<"c","e">>
T_abcde == <<"a","b","c","d","e">>
T_Minecraft == NetMinecraft \o <<"M">>
T_Entity == ComMojang \o <<"N">>
T_AABB == NetMinecraft \o <<"P">>
T_Impl == NetMinecraft \o <<"M">> \o S_Impl
T_Client == NetMinecraft \o <<"M">> \o S_Client
T_class3 == NetMinecraft \o S_class_ \o <<"3">>
T_foo == <<"f","o","o">>
T_baz == <<"b","a","z","2">>
T_yfoo == <<"y","_","f","o","o">>
T_field1234a == P_field \o <<"1","2","3","4","_","a">>
T_sig == <<"(","I",")","V">>
T_get == <<"g","e","t","I","t">>
T_func2b == P_func \o <<"2","_","b">>
T_c == <<"c">>
CLS_gh == <<"g"," ","h">>
CLS_hgx == <<" ","h"," "," ","g"," ","x">>
CLS_x == <<"x">>
CLS_blank == <<" ">>

\* class-definition tables
DefTypical == TABLE(NoneT, FALSE,
    << NameRow("C", T_Minecraft), NameRow("A", <<" ">> \o T_aq \o <<" ">>) >>)
DefOtherPage == TABLE(NoneT, FALSE,
    << NameRow("B", T_b), NameRow("D", T_Entity) >>)
DefSameName == TABLE(NoneT, FALSE,
    << NameRow("A", T_aq), NameRow("C", T_Minecraft), NameRow("D", T_Minecraft) >>)
DefThreePlain == TABLE(NoneT, FALSE,
    << NameRow("A", T_aq), NameRow("C", T_Minecraft), NameRow("D", T_Entity),
       NameRow("E", T_AABB) >>)
DefAllSchemes == TABLE(NoneT, FALSE,
    << NameRow("A", T_aq), NameRow("B", T_b), NameRow("Y", T_Impl),
       NameRow("I", T_class3), NameRow("E", T_Client), NameRow("D", T_class3),
       NameRow("C", T_Minecraft) >>)
DefSameMarker == TABLE(NoneT, FALSE,
    << NameRow("A", T_aq), NameRow("A", T_Minecraft) >>)
DefBlankFirst == TABLE(NoneT, FALSE,
    << NameRow("A", <<" ">>), NameRow("A", T_aq), NameRow("C", T_Minecraft) >>)
DefOnlyObf == TABLE(NoneT, FALSE, << NameRow("B", T_b) >>)
DefOnlyPlain == TABLE(NoneT, FALSE, << NameRow("D", T_Entity) >>)
DefSkippedRows == TABLE(NoneT, FALSE,
    << NameRow(None, T_aq),
       <<TD("A", <<>>), TD("G", T_aq)>>,
       NameRow("A", <<" ">>),
       NameRow("A", T_abcde),
       <<TD("A", <<>>), TD(POTENTIAL_NAME_CELL_CLASS, T_ce), TD(None, <<>>)>>,
       <<TD("A", <<>>)>>,
       NameRow("B", T_b), NameRow("C", T_Minecraft) >>)
DefNested == TABLE(NoneT, FALSE,
    << NameRow("C", T_Minecraft),
       <<TD(None, <<>>), TDN(None, <<>>, << NameRow("A", T_aq) >>)>> >>)
\* a table before the class-definition table, with a cell of class A
Decoy == TABLE(NoneT, FALSE, << <<TD("A", T_abcde)>> >>)

\* member rows: the names of one member, each in a row of a table nested in
\* the second cell
Member(names) == <<TD(None, <<>>), TDN(None, <<>>, names)>>
FieldFoo == Member(<< NameRow("C", T_foo), NameRow("Y", T_yfoo), NameRow("I", T_yfoo),
                      NameRow("D", T_field1234a), NameRow("A", T_bd) >>)
FieldNoObf == Member(<< NameRow("C", T_baz), NameRow("D", T_field1234a) >>)
FieldOneCell == <<TD(None, T_foo)>>
FieldFooAgain == Member(<< NameRow("C", T_foo), NameRow("D", T_field1234a), NameRow("A", T_ce) >>)
FieldOther == Member(<< NameRow("D", T_baz), NameRow("B", T_ce) >>)
MethodGet == Member(<< NameRow("C", T_get \o T_sig), NameRow("Y", T_get \o T_sig),
                       NameRow("D", T_func2b \o T_sig), NameRow("A", T_c \o T_sig) >>)

FieldsFull == << H4("Field summary"),
                 TABLE(CLS_gh, TRUE, <<FieldFoo, FieldOneCell, FieldNoObf>>) >>
MethodsFull == << H4("Method summary"), TABLE(CLS_hgx, TRUE, <<MethodGet>>) >>

Pages ==
    << \* 1-3: the pages of three classes, complete
       <<DefTypical>> \o FieldsFull \o MethodsFull,
       <<DefOtherPage, H4("Field summary"), TABLE(CLS_x, TRUE, <<FieldOther>>)>>,
       <<DefSameName>> \o FieldsFull \o MethodsFull,
       \* 4-5: a class-definition table and no summary heading
       <<DefTypical>>,
       <<DefOtherPage>>,
       \* 6-10: other class-definition tables
       <<DefThreePlain>> \o MethodsFull,
       <<DefAllSchemes>> \o FieldsFull,
       <<DefSameMarker>>,
       <<DefOnlyObf>>,
       <<DefOnlyPlain>>,
       \* 11-13: rows the detection skips, a nested table, a decoy cell
       <<DefSkippedRows>> \o FieldsFull,
       <<DefNested>>,
       <<Decoy, DefTypical>>,
       \* 14: no class-definition table
       <<H4("Field summary"), TABLE(CLS_gh, TRUE, <<FieldOneCell>>)>>,
       \* 15-19: summary tables the extraction cannot use, or uses differently
       <<DefTypical, H4("Field summary"), TABLE(NoneT, TRUE, <<FieldFoo>>)>> \o MethodsFull,
       <<DefTypical, H4("Field summary"), TABLE(CLS_gh, FALSE, <<FieldFoo>>),
         H4("Method summary"), TABLE(CLS_x, TRUE, <<MethodGet>>)>>,
       <<DefTypical, H4("Field summary"), TABLE(CLS_blank, TRUE, <<FieldFoo>>)>>,
       <<DefTypical, H4("Other"), H4("Field summary"),
         TABLE(CLS_gh, TRUE, <<FieldFoo, FieldFooAgain>>)>>,
       <<DefTypical, H4("Field summary")>>,
       \* 20: a blank name cell under the marker of the obfuscated name
       <<DefBlankFirst>> >>

PageIds == 1..Len(Pages)

\* the tree of each page
Trees == [p \in PageIds |-> Parse(Pages[p])]

-----------------------------------------------------------------------------
(* Mappings.__init__: the version gate *)

\* the exceptions the try block of __init__ meets
GATE_PASS == "pass"
GATE_WARNING == "warning: could not parse minor version"
E_gate == "InvalidMappingTypeError"

\* variant of VersionGate: the bound compared with <= instead of <
VersionGate_OffByOne(version, mapping_type) ==
    LET parts == SplitOn(version, ".")
    IN IF Len(parts) < 2 THEN GATE_WARNING
       ELSE IF IntFails(parts[2]) THEN GATE_WARNING
       ELSE IF IntValue(parts[2]) <= 15 /\ mapping_type # SEARGE THEN E_gate
       ELSE GATE_PASS

\* how lines 30-36 end for a version string and a mapping type
VersionGate(version, mapping_type) ==
    LET parts == SplitOn(version, ".")
    IN IF Len(parts) < 2 THEN GATE_WARNING                  \* IndexError, caught
       ELSE IF IntFails(parts[2]) THEN GATE_WARNING         \* ValueError, caught
       ELSE IF IntValue(parts[2]) < 15 /\ mapping_type # SEARGE THEN E_gate
       ELSE GATE_PASS

-----------------------------------------------------------------------------
(* Bounds of the model *)

\* fetch calls on one engine instance
MaxFetches == 3
\* length of the version strings the gate is tried on
MaxVerLen == 4

VersionAlphabet == {"1", "4", "5", ".", "-"}
V_1_14_4 == <<"1",".","1","4",".","4">>
V_1_20_1 == <<"1",".","2","0",".","1">>
\* the versions the caller constructs engines for
CallerVersions == {V_1_14_4, V_1_20_1}
\* the versions the gate is tried on
GateVersions ==
    CallerVersions \cup UNION {[1..k -> VersionAlphabet] : k \in 0..MaxVerLen}
\* the pages fetched where only the gate is of interest
GatePages == {4}
\* response status codes: success, and one raise_for_status raises on
Statuses == {200, 404}

-----------------------------------------------------------------------------
(* The state: one engine instance and the calls made on it *)

VARIABLES
    pc,                      \* "new": no instance yet; "ready"; "failed": __init__ raised
    ctor_args,               \* the arguments __init__ was called with
    version,                 \* self.version
    mapping_type_requested,  \* self.mapping_type_requested
    field_mappings,          \* self.field_mappings
    method_mappings,         \* self.method_mappings
    mapping_class_name,      \* self.mapping_class_name
    obfuscated_class_name,   \* self.obfuscated_class_name
    detected_selectors,      \* self.detected_selectors
    requests,                \* network requests issued so far (requests.get)
    calls,                   \* fetch calls made on the instance
    page,                    \* the page the latest fetch was served (0: none)
    outcome,                 \* how the latest call ended
    returned                 \* what the latest fetch returned (None: it raised)

vars == <<pc, ctor_args, version, mapping_type_requested, field_mappings, method_mappings,
          mapping_class_name, obfuscated_class_name, detected_selectors,
          requests, calls, page, outcome, returned>>

engine == <<version, mapping_type_requested, field_mappings, method_mappings,
            mapping_class_name, obfuscated_class_name, detected_selectors>>

\* the instance as one value
Self ==
    [mapping_type_requested |-> mapping_type_requested,
     field_mappings |-> field_mappings,
     method_mappings |-> method_mappings,
     mapping_class_name |-> mapping_class_name,
     obfuscated_class_name |-> obfuscated_class_name,
     detected_selectors |-> detected_selectors,
     outcome |-> outcome]

\* the instance __init__ builds
NewSelf(mapping_type) ==
    [mapping_type_requested |-> mapping_type,
     field_mappings |-> EmptyDict,
     method_mappings |-> EmptyDict,
     mapping_class_name |-> NoneT,
     obfuscated_class_name |-> NoneT,
     detected_selectors |-> InitialSelectors,
     outcome |-> GATE_PASS]

Init ==
    /\ pc = "new"
    /\ ctor_args = None
    /\ version = <<>>
    /\ mapping_type_requested = None
    /\ field_mappings = EmptyDict
    /\ method_mappings = EmptyDict
    /\ mapping_class_name = NoneT
    /\ obfuscated_class_name = NoneT
    /\ detected_selectors = InitialSelectors
    /\ requests = 0
    /\ calls = 0
    /\ page = 0
    /\ outcome = "none"
    /\ returned = None

\* Mappings(version, mapping_type)
Construct(v, t) ==
    /\ pc = "new"
    /\ ctor_args' = [version |-> v, mapping_type |-> t]
    /\ outcome' = VersionGate(v, t)
    /\ IF VersionGate(v, t) = E_gate
       THEN /\ pc' = "failed"
            /\ UNCHANGED engine
       ELSE /\ pc' = "ready"
            /\ version' = v
            /\ mapping_type_requested' = t
            /\ field_mappings' = NewSelf(t).field_mappings
            /\ method_mappings' = NewSelf(t).method_mappings
            /\ mapping_class_name' = NewSelf(t).mapping_class_name
            /\ obfuscated_class_name' = NewSelf(t).obfuscated_class_name
            /\ detected_selectors' = NewSelf(t).detected_selectors
    /\ UNCHANGED <<requests, calls, page, returned>>

\* mappings.fetch(class_path), the site answering with `status` and page p
Fetch(p, status) ==
    /\ pc = "ready"
    /\ calls < MaxFetches
    /\ calls' = calls + 1
    /\ requests' = requests + 1
    /\ page' = p
    /\ UNCHANGED <<pc, ctor_args, version, mapping_type_requested>>
    /\ IF status >= 400
       THEN /\ outcome' = E_http
            /\ returned' = None
            /\ UNCHANGED <<field_mappings, method_mappings, mapping_class_name,
                           obfuscated_class_name, detected_selectors>>
       ELSE LET after == FetchTree(Self, Trees[p])
            IN /\ outcome' = after.outcome
               /\ field_mappings' = after.field_mappings
               /\ method_mappings' = after.method_mappings
               /\ mapping_class_name' = after.mapping_class_name
               /\ obfuscated_class_name' = after.obfuscated_class_name
               /\ detected_selectors' = after.detected_selectors
               /\ returned' = IF after.outcome = OK THEN Get(after) ELSE None

Next ==
    \/ \E v \in CallerVersions, t \in MappingsType : Construct(v, t)
    \/ \E p \in PageIds, status \in Statuses : Fetch(p, status)

Spec == Init /\ [][Next]_vars

\* the gate tried on every short version string
NextGate ==
    \/ \E v \in GateVersions, t \in MappingsType : Construct(v, t)
    \/ \E p \in GatePages, status \in Statuses : Fetch(p, status)

SpecGate == Init /\ [][NextGate]_vars

-----------------------------------------------------------------------------
(* Vocabulary of the properties *)

\* a fetch has been made on the instance
FetchDone == pc = "ready" /\ calls > 0
\* the latest fetch got its page and ran the detection on it
Parsed == FetchDone /\ outcome # E_http
\* the tree of the page the latest fetch was served
LastTree == Trees[page]
\* this step is a fetch whose response was parsed
ParsedStep == calls' = calls + 1 /\ outcome' # E_http

RowMarker(row) == row[1].cls
RowName(row) == Strip(TextContent(row[2]))
\* the rows of the class-definition table whose name is classified as `kind`,
\* in document order
RowsOfKind(tree, kind) ==
    SelectSeq(tree.definition_rows,
              LAMBDA row : RowIsCandidate(row) /\ Classify(RowName(row)) = kind)

\* the errors a fetch can raise before both class names are extracted
BeforeNames == {E_http, E_obf_marker, E_req_marker, E_table, E_obf_name, E_map_name}

-----------------------------------------------------------------------------
(* C1: the version gate *)

\* the second dot-separated component of v parses as an integer
MinorParses(v) == Len(SplitOn(v, ".")) >= 2 /\ ~IntFails(SplitOn(v, ".")[2])
Minor(v) == IntValue(SplitOn(v, ".")[2])

\* C1: a version whose minor component parses below 15, with a scheme other
\* than SEARGE, makes the constructor raise InvalidMappingTypeError and no
\* request is ever issued for it; a minor component of 15 or more, or the
\* SEARGE scheme, passes the gate ("1.14.4" with MOJANG fails, "1.20.1" with
\* SEARGE passes).
C1_VersionGate ==
    pc # "new" =>
      LET v == ctor_args.version
          t == ctor_args.mapping_type
      IN /\ (MinorParses(v) /\ Minor(v) < 15 /\ t # SEARGE)
              => (pc = "failed" /\ outcome = E_gate /\ requests = 0 /\ calls = 0)
         /\ ((MinorParses(v) /\ Minor(v) >= 15) \/ t = SEARGE)
              => (pc = "ready" /\ outcome # E_gate)
         /\ (v = V_1_14_4 /\ t = MOJANG) => pc = "failed"
         /\ (v = V_1_20_1 /\ t = SEARGE) => pc = "ready"

\* "1.14.4" with MOJANG was refused, and nothing was requested
C1_Witness ==
    /\ pc = "failed"
    /\ ctor_args = [version |-> V_1_14_4, mapping_type |-> MOJANG]
    /\ outcome = E_gate
    /\ requests = 0

-----------------------------------------------------------------------------
(* C2: the class name pair *)

\* the rows the detection classifies under the requested scheme: the first
\* plain dotted row is the MOJANG row, the second one the SEARGE row, and
\* that one only in a fetch that finds the secondary slot unset
RequestedRows(tree, scheme, slot) ==
    LET plain == RowsOfKind(tree, PLAIN)
        Only(n) == IF Len(plain) >= n THEN <<plain[n]>> ELSE <<>>
    IN CASE scheme = MOJANG -> Only(1)
         [] scheme = SEARGE -> IF slot = None THEN Only(2) ELSE <<>>
         [] OTHER -> RowsOfKind(tree, scheme)

\* the marker token m is on exactly one cell of the class-definition table
\* and of the document before it
OnOneCell(tree, m) ==
    Cardinality({k \in 1..Len(tree.tds) :
                    /\ tree.tds[k].cls = m
                    /\ tree.tds[k].tbl[1] <= tree.definition_tables[1][1]}) = 1

\* the page of this step has exactly one obfuscated row and exactly one row
\* of the requested scheme, and the fetch returns
C2_Case ==
    /\ calls' = calls + 1
    /\ outcome' = OK
    /\ Len(RowsOfKind(Trees[page'], OBFUSCATED)) = 1
    /\ Len(RequestedRows(Trees[page'], mapping_type_requested,
                         detected_selectors.searge_class_marker)) = 1

C2_Names ==
    LET o == RowsOfKind(Trees[page'], OBFUSCATED)[1]
        q == RequestedRows(Trees[page'], mapping_type_requested,
                           detected_selectors.searge_class_marker)[1]
    IN /\ returned'.obfuscated_class_name = RowName(o)
       /\ returned'.class_name = RowName(q)

C2_MarkersApart ==
    LET o == RowsOfKind(Trees[page'], OBFUSCATED)[1]
        q == RequestedRows(Trees[page'], mapping_type_requested,
                           detected_selectors.searge_class_marker)[1]
    IN /\ RowMarker(o) # RowMarker(q)
       /\ OnOneCell(Trees[page'], RowMarker(o))
       /\ OnOneCell(Trees[page'], RowMarker(q))

-----------------------------------------------------------------------------
(* C3, C5, C6: one instance used for several pages *)

\* what the member extraction of the latest fetch takes from its own page,
\* starting from empty mappings
ExtractedHere ==
    FetchMembers([Self EXCEPT !.field_mappings = EmptyDict,
                              !.method_mappings = EmptyDict],
                 LastTree.nodes)

\* C3: the fields and methods a fetch returns are exactly the entries
\* extracted from that fetch's page, with nothing left from an earlier page.
C3_FreshResult ==
    (FetchDone /\ outcome = OK) =>
        /\ returned.fields = ExtractedHere.field_mappings
        /\ returned.methods = ExtractedHere.method_mappings

\* C5: the markers a fetch works with are those detected on its own page; a
\* marker that page does not show is unset.
C5_OwnMarkers ==
    Parsed => detected_selectors = DetectSelectors(InitialSelectors, LastTree)

\* C6: a fetch returns what a fetch of the same page with the same version
\* and scheme returns on an instance that fetched nothing before.
C6_SameResult ==
    LET first == FetchTree(NewSelf(mapping_type_requested), LastTree)
    IN (FetchDone /\ outcome = OK /\ first.outcome = OK) => returned = Get(first)

-----------------------------------------------------------------------------
(* C4: degraded success *)

-----------------------------------------------------------------------------
(* C7: member rows *)

\* the names a member row offers: the texts of the name cells of its second
\* cell, without surrounding blanks and without a parenthesis suffix
NameOf(e) == StripParen(Strip(e.text))

\* the pairs (name, obfuscated name) a row yields under a scheme: none when
\* the row has fewer than two cells or one of the two names is missing
RowPairs(row, scheme, requested_marker, obf_marker) ==
    IF Len(row) < 2 THEN {}
    ELSE LET scope == ScopeEntries(row[2])
             cells == 1..Len(scope)
         IN IF scheme = SEARGE
            THEN {<<NameOf(scope[i]), NameOf(scope[j])>> : <<i, j>> \in
                    {c \in cells \X cells :
                        /\ IsNameAfterAnyMarker(scope[c[1]])
                        /\ IsNameAfterAnyMarker(scope[c[2]])
                        /\ MatchSeargeMember(NameOf(scope[c[1]]))
                        /\ MatchLetters14(NameOf(scope[c[2]]))}}
            ELSE {<<NameOf(scope[i]), NameOf(scope[j])>> : <<i, j>> \in
                    {c \in cells \X cells :
                        /\ IsNameAfter(scope[c[1]], requested_marker)
                        /\ IsNameAfter(scope[c[2]], obf_marker)}}

\* the rows the fetch of this step walks for a heading
WalkedRows(heading) ==
    LET nodes == Trees[page'].nodes
        cls == detected_selectors'.field_method_table_class
        t == MemberTable(nodes, heading, SplitWs(cls))
    IN IF outcome' = OK /\ ~Falsy(cls) /\ t # 0 /\ nodes[t].tbody
       THEN nodes[t].rows ELSE <<>>

\* every entry of `after` that is not an unchanged entry of `before` is the
\* pair of a walked row that has both names, and every such row has its name
\* in `after`
OnlyFullRows(before, after, rows) ==
    LET scheme == mapping_type_requested
        req == MemberMarker(detected_selectors', scheme)
        obf == detected_selectors'.obfuscated_class_marker
        Pairs(k) == RowPairs(rows[k], scheme, req, obf)
    IN /\ DOMAIN before \subseteq DOMAIN after
       /\ \A n \in DOMAIN after :
             (n \notin DOMAIN before \/ after[n] # before[n])
                => \E k \in 1..Len(rows) : <<n, after[n]>> \in Pairs(k)
       /\ \A k \in 1..Len(rows) : \A pr \in Pairs(k) : pr[1] \in DOMAIN after

\* C7: a member row adds an entry only when both names are found in its
\* second cell; a row with fewer than two cells or without one of the names
\* adds nothing, changes no entry and fails no fetch.
C7_BothNames ==
    [][ParsedStep =>
          /\ OnlyFullRows(field_mappings, field_mappings', WalkedRows("Field summary"))
          /\ OnlyFullRows(method_mappings, method_mappings', WalkedRows("Method summary"))]_vars

\* the row with "field_1234_a" and "bd" was recorded under SEARGE, from a
\* table that also has a one-cell row and a row without an obfuscated name
C7_Witness ==
    /\ FetchDone /\ outcome = OK /\ page = 1
    /\ mapping_type_requested = SEARGE
    /\ field_mappings = (T_field1234a :> T_bd)

-----------------------------------------------------------------------------
(* C8, C9: the detection *)

\* this step is a fetch that ran the detection loop on a class-definition table
DetectionStep == ParsedStep /\ Trees[page'].definition_tables # <<>>

\* the plain dotted rows after the first whose name differs from the first's
LaterDistinct(plain) ==
    IF plain = <<>> THEN <<>>
    ELSE SelectSeq(Tail(plain), LAMBDA row : RowName(row) # RowName(plain[1]))

\* C8 as claimed: the first plain dotted row gives the MOJANG marker, and the
\* SEARGE secondary marker is recorded only from the next such row whose name
\* is distinct from the first one.
C8_SecondDistinct ==
    [][DetectionStep =>
          LET plain == RowsOfKind(Trees[page'], PLAIN)
              slot == detected_selectors.searge_class_marker
              slot2 == detected_selectors'.searge_class_marker
          IN /\ plain # <<>>
                  => DictGet(detected_selectors'.class_name_markers, MOJANG)
                         = RowMarker(plain[1])
             /\ slot2 # slot
                  => /\ LaterDistinct(plain) # <<>>
                     /\ slot2 = RowMarker(LaterDistinct(plain)[1])]_vars

\* C8, amended: the first plain dotted row gives the MOJANG marker, and the
\* SEARGE secondary marker is recorded from the next such row, whether or not
\* its name repeats the first one, in a fetch that finds the slot unset; it is
\* recorded from no other row.
C8_SecondPlain ==
    [][DetectionStep =>
          LET plain == RowsOfKind(Trees[page'], PLAIN)
              slot == detected_selectors.searge_class_marker
              slot2 == detected_selectors'.searge_class_marker
          IN /\ plain # <<>>
                  => DictGet(detected_selectors'.class_name_markers, MOJANG)
                         = RowMarker(plain[1])
             /\ slot2 # slot => (slot = None /\ Len(plain) >= 2)
             /\ (slot = None /\ Len(plain) >= 2)
                  => /\ slot2 = RowMarker(plain[2])
                     /\ DictGet(detected_selectors'.class_name_markers, SEARGE)
                            = RowMarker(plain[2])]_vars

\* a second row repeating the name of the first one set the SEARGE marker
C8_Witness ==
    /\ Parsed /\ calls = 1 /\ page = 3
    /\ RowName(RowsOfKind(LastTree, PLAIN)[2]) = RowName(RowsOfKind(LastTree, PLAIN)[1])
    /\ DictGet(detected_selectors.class_name_markers, MOJANG) = "C"
    /\ detected_selectors.searge_class_marker = "D"

\* the marker the detection holds for a category of rows
MarkerOf(sel, kind) ==
    CASE kind = OBFUSCATED -> sel.obfuscated_class_marker
      [] kind = PLAIN -> DictGet(sel.class_name_markers, MOJANG)
      [] OTHER -> DictGet(sel.class_name_markers, kind)

-----------------------------------------------------------------------------
(* C10: a fetch that fails *)

\* this step is a fetch that raised
FailedStep == calls' = calls + 1 /\ outcome' # OK

\* C10 as claimed: a failed fetch leaves the class name, the obfuscated class
\* name, the fields and the methods as they were.
C10_FailureKeepsAll ==
    [][FailedStep => UNCHANGED <<mapping_class_name, obfuscated_class_name,
                                 field_mappings, method_mappings>>]_vars

====
